---- MODULE Spec2Model ----
(***************************************************************************)
(* Audit-event rate-limited logger (app/api/logging/audit.py).             *)
(*                                                                         *)
(* handle_audit_event is the process-wide audit hook.  It filters events   *)
(* by the table EVENTS_TO_LOG, counts repeats of an event key in the       *)
(* module-level LeastRecentlyUsedDict audit_message_count, and logs the    *)
(* occurrences the throttle lets through at level AUDIT.                   *)
(*                                                                         *)
(* The hook runs inline in whichever thread raised the event, so one       *)
(* dispatch is modelled as the sequence of its accesses to shared state:   *)
(*   handle_audit_event  lines 58-62, 76-82  (filter, extra, key, and the  *)
(*                                            lookup of the key in the     *)
(*                                            cache)                       *)
(*   ReadCount           line 84             (audit_message_count[key]+1)  *)
(*   StoreCount          line 85             (audit_message_count[key]=..) *)
(*   EmitRecord          lines 87-95         (throttle, logger.log)        *)
(* The class LeastRecentlyUsedDict (api.util.collections) is modelled from *)
(* its specified contract: each single operation on it is atomic.          *)
(***************************************************************************)
EXTENDS Integers, Sequences, FiniteSets, TLC

VARIABLES
    audit_message_count, \* the LRU dict: sequence of [key, count], least recently used first
    records,             \* what the logging sink received, in order
    pc,                  \* per thread: where its current dispatch stands
    local,               \* per thread: the locals of its current dispatch
    budget,              \* raw events the event source may still raise
    history,             \* ghost: one entry per completed dispatch
    tick,                \* ghost: number of accesses to the cache so far
    touched,             \* ghost: key -> tick of its last access
    evicted,             \* ghost: keys that were ever evicted
    hooks,               \* how many times handle_audit_event is registered as audit hook
    pending,             \* the raw event being raised: one copy per hook still to be called
    raw,                 \* ghost: the raw events raised, each with the hooks it goes to
    stdin,               \* decodelog: the lines not read yet
    stdout,              \* decodelog: what was written, one element per write of a line
    running,             \* decodelog: FALSE once an exception has ended main
    processed            \* ghost: the lines read, each with what process_line did with it

decodelog == <<stdin, stdout, running, processed>>

vars == <<audit_message_count, records, pc, local, budget, history, tick, touched, evicted,
          hooks, pending, raw, stdin, stdout, running, processed>>

----------------------------------------------------------------------------
(* Bounds of the model *)

\* capacity of the cache, scaled down
maxsize == 2
\* raw events raised in one behaviour of Spec
MaxDispatches == 4
\* raw events raised in one behaviour of SpecSeq
MaxSeqDispatches == 4
\* repetitions of the one event of SpecRepeat
MaxRepeat == 1000
\* dispatches of SpecEvict
MaxEvictDispatches == 6
\* calls of init() in one behaviour of SpecInit
MaxHooks == 2
\* raw events raised in one behaviour of SpecInit, and the dispatches they make
MaxRaw == 4
MaxInitDispatches == 6
\* lines on the standard input of the log decoder
MaxLines == 2

Threads == {1, 2}

----------------------------------------------------------------------------
(* Values and their text representation *)

PyStr(s) == [type |-> "str", text |-> s]
PyInt(s) == [type |-> "int", text |-> s]
PyNone == [type |-> "NoneType", text |-> "None"]

\* repr() of one value: a str is quoted, an int and None print as they are
repr(v) == IF v.type = "str" THEN "'" \o v.text \o "'" ELSE v.text

RECURSIVE repr_join(_)
repr_join(args) ==
    IF Len(args) = 0 THEN ""
    ELSE IF Len(args) = 1 THEN repr(args[1])
    ELSE repr(args[1]) \o ", " \o repr_join(Tail(args))

\* repr() of the args tuple
repr_tuple(args) ==
    IF Len(args) = 1 THEN "(" \o repr(args[1]) \o ",)"
    ELSE "(" \o repr_join(args) \o ")"

----------------------------------------------------------------------------
(* Constants of the module *)

\* a level between INFO and WARNING
AuditBelowWarning == 20 + 5

AUDIT == 32

LevelName(levelno) == IF levelno = AUDIT THEN "AUDIT" ELSE "Level"

\* the table with one more name in it
EVENTS_TO_LOG_WithImport ==
    "exec" :> <<"code_object">>
    @@ "open" :> <<"path", "mode", "flags">>
    @@ "os.kill" :> <<"pid", "sig">>
    @@ "os.rename" :> <<"src", "dst", "src_dir_fd", "dst_dir_fd">>
    @@ "subprocess.Popen" :> <<"executable", "args", "cwd", "_">>
    @@ "socket.connect" :> <<"socket", "address">>
    @@ "socket.getaddrinfo" :> <<"host", "port", "family", "type", "protocol">>
    @@ "sys.addaudithook" :> <<>>
    @@ "urllib.Request" :> <<"url", "_", "_", "method">>
    @@ "import" :> <<"module", "filename">>

\* the table with the third argument of open marked as ignored
EVENTS_TO_LOG_OpenFlagsIgnored ==
    "exec" :> <<"code_object">>
    @@ "open" :> <<"path", "mode", "_">>
    @@ "os.kill" :> <<"pid", "sig">>
    @@ "os.rename" :> <<"src", "dst", "src_dir_fd", "dst_dir_fd">>
    @@ "subprocess.Popen" :> <<"executable", "args", "cwd", "_">>
    @@ "socket.connect" :> <<"socket", "address">>
    @@ "socket.getaddrinfo" :> <<"host", "port", "family", "type", "protocol">>
    @@ "sys.addaudithook" :> <<>>
    @@ "urllib.Request" :> <<"url", "_", "_", "method">>

EVENTS_TO_LOG ==
    "exec" :> <<"code_object">>
    @@ "open" :> <<"path", "mode", "flags">>
    @@ "os.kill" :> <<"pid", "sig">>
    @@ "os.rename" :> <<"src", "dst", "src_dir_fd", "dst_dir_fd">>
    @@ "subprocess.Popen" :> <<"executable", "args", "cwd", "_">>
    @@ "socket.connect" :> <<"socket", "address">>
    @@ "socket.getaddrinfo" :> <<"host", "port", "family", "type", "protocol">>
    @@ "sys.addaudithook" :> <<>>
    @@ "urllib.Request" :> <<"url", "_", "_", "method">>

\* line 58: the event filter
IsLogged(event_name) == event_name \in DOMAIN EVENTS_TO_LOG

\* line 61
ArgNames(event_name) == EVENTS_TO_LOG[event_name]

Min(a, b) == IF a < b THEN a ELSE b

\* the comprehension without its filter on the ignore marker
MakeExtraUnfiltered(arg_names, args) ==
    LET paired == 1..Min(Len(arg_names), Len(args))
        last(k) == CHOOSE i \in paired :
                       /\ "audit.args." \o arg_names[i] = k
                       /\ \A j \in paired : "audit.args." \o arg_names[j] = k => j <= i
    IN  [k \in {"audit.args." \o arg_names[i] : i \in paired} |-> args[last(k)]]

\* the comprehension pairing every label, a missing argument read as None
MakeExtraPadded(arg_names, args) ==
    LET kept == {i \in 1..Len(arg_names) : arg_names[i] # "_"}
        last(k) == CHOOSE i \in kept :
                       /\ "audit.args." \o arg_names[i] = k
                       /\ \A j \in kept : "audit.args." \o arg_names[j] = k => j <= i
    IN  [k \in {"audit.args." \o arg_names[i] : i \in kept} |->
            IF last(k) <= Len(args) THEN args[last(k)] ELSE PyNone]

\* lines 76-78: zip pairs up to the shorter length; a later pair with the same
\* label overwrites an earlier one
MakeExtra(arg_names, args) ==
    LET paired == 1..Min(Len(arg_names), Len(args))
        kept == {i \in paired : arg_names[i] # "_"}
        last(k) == CHOOSE i \in kept :
                       /\ "audit.args." \o arg_names[i] = k
                       /\ \A j \in kept : "audit.args." \o arg_names[j] = k => j <= i
    IN  [k \in {"audit.args." \o arg_names[i] : i \in kept} |-> args[last(k)]]

\* a key made of the event name alone
EventKeyNameOnly(event_name, args) == <<event_name, "()">>

\* line 80
EventKey(event_name, args) == <<event_name, repr_tuple(args)>>

\* the throttle without its test for counts above 100
ThrottledTensOnly(count) == count > 10 /\ count % 10 # 0

\* the throttle without the floor of ten always-logged occurrences
ThrottledNoFloor(count) ==
    \/ count > 100 /\ count % 100 # 0
    \/ count % 10 # 0

\* the throttle logging only every thousandth occurrence above 100
ThrottledThousands(count) ==
    \/ count > 100 /\ count % (100 * 10) # 0
    \/ count > 10 /\ count % 10 # 0

\* lines 87-91: TRUE when the occurrence is not logged
Throttled(count) ==
    \/ count > 100 /\ count % 100 # 0
    \/ count > 10 /\ count % 10 # 0

\* the record with the count as it was before this occurrence
MakeRecordStaleCount(event_name, extra, count) ==
    [msg |-> event_name, levelno |-> AUDIT, levelname |-> LevelName(AUDIT),
     extra |-> extra @@ ("count" :> (count - 1))]

\* lines 93-95: the record logger.log builds
MakeRecord(event_name, extra, count) ==
    [msg |-> event_name, levelno |-> AUDIT, levelname |-> LevelName(AUDIT),
     extra |-> extra @@ ("count" :> count)]

----------------------------------------------------------------------------
(* LeastRecentlyUsedDict *)

Keys(d) == {d[i].key : i \in 1..Len(d)}

DictContains(d, key) == key \in Keys(d)

DictIndex(d, key) == (CHOOSE i \in 1..Len(d) : d[i].key = key)

MoveToEnd(d, key) ==
    LET i == DictIndex(d, key)
    IN  Append(SelectSeq(d, LAMBDA e : e.key # key), d[i])

\* d[key]: the value; the access makes key the most recently used
DictGet(d, key) == d[DictIndex(d, key)].count

\* d[key] = value: key becomes the most recently used; one entry, the least
\* recently used, is evicted when the size exceeds the capacity
DictSet(d, key, value, capacity) ==
    LET ins == Append(SelectSeq(d, LAMBDA e : e.key # key), [key |-> key, count |-> value])
    IN  IF Len(ins) > capacity THEN Tail(ins) ELSE ins

\* a plain dict in place of the bounded one: nothing is ever evicted
PlainDictCapacity == maxsize + MaxDispatches + MaxSeqDispatches + MaxRepeat

\* line 98: LeastRecentlyUsedDict() with its default capacity
AuditCacheCapacity == maxsize

----------------------------------------------------------------------------
(* State *)

NoLocal ==
    [event_name |-> "", args |-> <<>>, arg_names |-> <<>>, extra |-> <<>>,
     key |-> <<>>, count |-> 0, fresh |-> FALSE]

InitWith(n) ==
    /\ audit_message_count = <<>>
    /\ records = <<>>
    /\ pc = [t \in Threads |-> "idle"]
    /\ local = [t \in Threads |-> NoLocal]
    /\ budget = n
    /\ history = <<>>
    /\ tick = 0
    /\ touched = <<>>
    /\ evicted = {}
    /\ hooks = 1
    /\ pending = <<>>
    /\ raw = <<>>
    /\ stdin = <<>>
    /\ stdout = <<>>
    /\ running = TRUE
    /\ processed = <<>>

Done(t, sink, result, logged) ==
    [event_name |-> local[t].event_name, args |-> local[t].args,
     key |-> local[t].key, count |-> local[t].count, fresh |-> local[t].fresh,
     sink |-> sink, result |-> result, logged |-> logged]

Touch(d, key) == [k \in Keys(d) |-> IF k = key THEN tick + 1 ELSE touched[k]]

----------------------------------------------------------------------------
(* The events the source raises *)

OpenX == [event_name |-> "open", args |-> <<PyStr("/tmp/x"), PyStr("w")>>]
OpenY == [event_name |-> "open", args |-> <<PyStr("/tmp/y"), PyStr("w")>>]
Kill == [event_name |-> "os.kill", args |-> <<PyInt("4321"), PyInt("15")>>]
Import == [event_name |-> "import", args |-> <<PyStr("os"), PyNone>>]

Events == {OpenX, OpenY, Kill, Import}

\* one event of every name of the table, and the variants the tests use
Exec == [event_name |-> "exec", args |-> <<PyStr("1+1")>>]
OpenPasswd == [event_name |-> "open", args |-> <<PyStr("/etc/passwd"), PyStr("r"), PyNone>>]
Rename == [event_name |-> "os.rename",
           args |-> <<PyStr("/tmp/oldname"), PyStr("/tmp/newname"), PyInt("-1"), PyInt("-1")>>]
PopenA == [event_name |-> "subprocess.Popen",
           args |-> <<PyStr("/bin/ls"), PyStr("ls"), PyNone, PyStr("FOO=SENSITIVE-DATA")>>]
PopenB == [event_name |-> "subprocess.Popen",
           args |-> <<PyStr("/bin/ls"), PyStr("ls"), PyNone, PyStr("FOO=bar")>>]
Connect == [event_name |-> "socket.connect",
            args |-> <<PyStr("<socket fd=3>"), PyStr("www.python.org:80")>>]
GetAddrInfo == [event_name |-> "socket.getaddrinfo",
                args |-> <<PyStr("www.python.org"), PyInt("80"), PyInt("0"), PyInt("1"), PyInt("0")>>]
AddAuditHook == [event_name |-> "sys.addaudithook", args |-> <<>>]
Request == [event_name |-> "urllib.Request",
            args |-> <<PyStr("https://www.python.org"), PyStr("foo=SENSITIVE-DATA"),
                       PyStr("X-Bar: SENSITIVE-DATA"), PyStr("GET")>>]

\* an event of the table raised with no argument at all
OpenNoArgs == [event_name |-> "open", args |-> <<>>]

SeqEvents == {Exec, OpenX, OpenPasswd, OpenNoArgs, Kill, Rename, PopenA, PopenB, Connect,
              GetAddrInfo, AddAuditHook, Request, Import}

----------------------------------------------------------------------------
(* Actions *)

\* lines 28-62 and 76-82: the hook is entered with a raw event.  An event that
\* is not in the table returns at once.  For the others the locals are built
\* (extra, key) and the key is looked up (line 81): count = 1 when it is absent.
handle_audit_event(t, ev) ==
    /\ pc[t] = "idle"
    /\ budget > 0
    /\ budget' = budget - 1
    /\ IF ~IsLogged(ev.event_name)
       THEN /\ history' = Append(history,
                    [event_name |-> ev.event_name, args |-> ev.args,
                     key |-> <<>>, count |-> 0, fresh |-> FALSE,
                     sink |-> "none", result |-> "returned", logged |-> <<>>])
            /\ UNCHANGED <<pc, local>>
       ELSE LET key == EventKey(ev.event_name, ev.args)
                absent == ~DictContains(audit_message_count, key)
            IN  /\ local' = [local EXCEPT ![t] =
                        [event_name |-> ev.event_name,
                         args |-> ev.args,
                         arg_names |-> ArgNames(ev.event_name),
                         extra |-> MakeExtra(ArgNames(ev.event_name), ev.args),
                         key |-> key,
                         count |-> IF absent THEN 1 ELSE 0,
                         fresh |-> absent]]
                /\ pc' = [pc EXCEPT ![t] = IF absent THEN "store" ELSE "read"]
                /\ UNCHANGED history
    /\ UNCHANGED <<audit_message_count, records, tick, touched, evicted, hooks, raw>>
    /\ UNCHANGED decodelog

\* the hook called with an event raised in thread t
DirectCall(t, ev) == handle_audit_event(t, ev) /\ UNCHANGED pending

\* line 84: count = audit_message_count[key] + 1.  When another thread's store
\* has evicted the key since line 81, the read of the missing key either
\* raises KeyError or yields the default 0.
ReadCount(t) ==
    /\ pc[t] = "read"
    /\ IF DictContains(audit_message_count, local[t].key)
       THEN /\ local' = [local EXCEPT ![t].count =
                            DictGet(audit_message_count, local[t].key) + 1]
            /\ audit_message_count' = MoveToEnd(audit_message_count, local[t].key)
            /\ tick' = tick + 1
            /\ touched' = Touch(audit_message_count, local[t].key)
            /\ pc' = [pc EXCEPT ![t] = "store"]
            /\ UNCHANGED history
       ELSE /\ \E missing \in {"KeyError", "default"} :
                 IF missing = "KeyError"
                 THEN /\ history' = Append(history, Done(t, "none", "raised", <<>>))
                      /\ pc' = [pc EXCEPT ![t] = "idle"]
                      /\ local' = [local EXCEPT ![t] = NoLocal]
                 ELSE /\ local' = [local EXCEPT ![t].count = 1]
                      /\ pc' = [pc EXCEPT ![t] = "store"]
                      /\ UNCHANGED history
            /\ UNCHANGED <<audit_message_count, tick, touched>>
    /\ UNCHANGED <<records, budget, evicted, hooks, pending, raw>>
    /\ UNCHANGED decodelog

\* line 85: audit_message_count[key] = count
StoreCount(t) ==
    /\ pc[t] = "store"
    /\ LET d == DictSet(audit_message_count, local[t].key, local[t].count,
                        AuditCacheCapacity)
       IN  /\ audit_message_count' = d
           /\ evicted' = evicted \cup ((Keys(audit_message_count) \cup {local[t].key}) \ Keys(d))
           /\ touched' = [k \in Keys(d) |->
                             IF k = local[t].key THEN tick + 1 ELSE touched[k]]
    /\ tick' = tick + 1
    /\ pc' = [pc EXCEPT ![t] = "emit"]
    /\ UNCHANGED <<records, local, budget, history, hooks, pending, raw>>
    /\ UNCHANGED decodelog

\* lines 87-95: the throttle, then logger.log.  sinks are the ways the call to
\* the logging sink can end: "ok", or "raise" when a handler of the sink fails.
\* Nothing between the sink and the event source catches the exception.
EmitRecord(t, sinks) ==
    /\ pc[t] = "emit"
    /\ IF Throttled(local[t].count)
       THEN /\ history' = Append(history, Done(t, "none", "returned", <<>>))
            /\ UNCHANGED records
       ELSE \E sink \in sinks :
                LET rec == MakeRecord(local[t].event_name, local[t].extra, local[t].count)
                IN  IF sink = "ok"
                    THEN /\ records' = Append(records, rec)
                         /\ history' = Append(history, Done(t, "ok", "returned", <<rec>>))
                    ELSE /\ history' = Append(history, Done(t, "failed", "raised", <<>>))
                         /\ UNCHANGED records
    /\ pc' = [pc EXCEPT ![t] = "idle"]
    /\ local' = [local EXCEPT ![t] = NoLocal]
    /\ UNCHANGED <<audit_message_count, budget, tick, touched, evicted, hooks, pending, raw>>
    /\ UNCHANGED decodelog

----------------------------------------------------------------------------
(* Spec: the hook is entered from two threads; the sink may fail *)

Init == InitWith(MaxDispatches)

Next ==
    \E t \in Threads :
        \/ \E ev \in Events : DirectCall(t, ev)
        \/ ReadCount(t)
        \/ StoreCount(t)
        \/ EmitRecord(t, {"ok", "raise"})

Spec == Init /\ [][Next]_vars

----------------------------------------------------------------------------
(* SpecSeq: events of every name are dispatched one after the other from    *)
(* one thread; the sink works                                               *)

InitSeq == InitWith(MaxSeqDispatches)

NextSeq ==
    \/ \E ev \in SeqEvents : DirectCall(1, ev)
    \/ ReadCount(1)
    \/ StoreCount(1)
    \/ EmitRecord(1, {"ok"})

SpecSeq == InitSeq /\ [][NextSeq]_vars

----------------------------------------------------------------------------
(* SpecRepeat: one event is dispatched MaxRepeat times in sequence; the     *)
(* sink works (test_repeated_audit_logs)                                    *)

InitRepeat == InitWith(MaxRepeat)

NextRepeat ==
    \/ DirectCall(1, OpenX)
    \/ ReadCount(1)
    \/ StoreCount(1)
    \/ EmitRecord(1, {"ok"})

SpecRepeat == InitRepeat /\ [][NextRepeat]_vars

----------------------------------------------------------------------------
(* SpecEvict: events of more keys than the cache holds are dispatched one   *)
(* after the other from one thread, so that keys are evicted and return     *)

EvictEvents == {OpenX, OpenY, Kill, PopenA}

InitEvict == InitWith(MaxEvictDispatches)

NextEvict ==
    \/ \E ev \in EvictEvents : DirectCall(1, ev)
    \/ ReadCount(1)
    \/ StoreCount(1)
    \/ EmitRecord(1, {"ok"})

SpecEvict == InitEvict /\ [][NextEvict]_vars

----------------------------------------------------------------------------
(* SpecInit: init() is called up to MaxHooks times; each raw event is then  *)
(* passed to every registered hook in turn, in the raising thread           *)

InitEvents == {OpenX, Kill}

Copies(ev, n) == [i \in 1..n |-> ev]

\* init() with a guard against registering twice
initOnce ==
    /\ pc[1] = "idle"
    /\ pending = <<>>
    /\ hooks < MaxHooks
    /\ Len(raw) < MaxRaw
    /\ raw' = Append(raw, [ev |-> AddAuditHook, hooks |-> hooks, by |-> "init"])
    /\ hooks' = IF hooks = 0 THEN 1 ELSE hooks
    /\ pending' = <<>>
    /\ UNCHANGED <<audit_message_count, records, pc, local, budget, history,
                   tick, touched, evicted>>
    /\ UNCHANGED decodelog

\* lines 22-25: sys.addaudithook raises the event sys.addaudithook, with no
\* argument, to the hooks registered so far, then registers the new hook
init ==
    /\ pc[1] = "idle"
    /\ pending = <<>>
    /\ hooks < MaxHooks
    /\ Len(raw) < MaxRaw
    /\ budget >= hooks
    /\ raw' = Append(raw, [ev |-> AddAuditHook, hooks |-> hooks, by |-> "init"])
    /\ hooks' = hooks + 1
    /\ pending' = Copies(AddAuditHook, hooks)
    /\ UNCHANGED <<audit_message_count, records, pc, local, budget, history,
                   tick, touched, evicted>>
    /\ UNCHANGED decodelog

\* the event source raises a raw event: every registered hook is to be called
RaiseEvent(ev) ==
    /\ pc[1] = "idle"
    /\ pending = <<>>
    /\ Len(raw) < MaxRaw
    /\ budget >= hooks
    /\ raw' = Append(raw, [ev |-> ev, hooks |-> hooks, by |-> "source"])
    /\ pending' = Copies(ev, hooks)
    /\ UNCHANGED <<audit_message_count, records, pc, local, budget, history,
                   tick, touched, evicted, hooks>>
    /\ UNCHANGED decodelog

\* the next hook is called with the event being raised
Deliver ==
    /\ pending # <<>>
    /\ handle_audit_event(1, Head(pending))
    /\ pending' = Tail(pending)

InitHooks ==
    /\ audit_message_count = <<>>
    /\ records = <<>>
    /\ pc = [t \in Threads |-> "idle"]
    /\ local = [t \in Threads |-> NoLocal]
    /\ budget = MaxInitDispatches
    /\ history = <<>>
    /\ tick = 0
    /\ touched = <<>>
    /\ evicted = {}
    /\ hooks = 0
    /\ pending = <<>>
    /\ raw = <<>>
    /\ stdin = <<>>
    /\ stdout = <<>>
    /\ running = TRUE
    /\ processed = <<>>

NextInit ==
    \/ init
    \/ \E ev \in InitEvents : RaiseEvent(ev)
    \/ Deliver
    \/ ReadCount(1)
    \/ StoreCount(1)
    \/ EmitRecord(1, {"ok"})

SpecInit == InitHooks /\ [][NextInit]_vars

----------------------------------------------------------------------------
(* The log decoder (app/api/logging/decodelog.py).  A line is a sequence of *)
(* characters; the text of a JSON object after its opening brace is one     *)
(* symbol, and json.loads is the table of what each such text parses to.    *)

InfoBody == "\"name\":\"api\",\"levelname\":\"INFO\",\"created\":0,\"message\":\"m\"}"
AuditBody == "\"name\":\"api\",\"levelname\":\"AUDIT\",\"created\":0,\"message\":\"open\"}"
BadCreatedBody == "\"levelname\":\"INFO\",\"created\":\"x\"}"

Whitespace == {" ", "\n", "\r", "\t"}

RECURSIVE rstrip(_)
\* line 38: str.rstrip() removes the trailing whitespace
rstrip(line) ==
    IF line # <<>> /\ line[Len(line)] \in Whitespace
    THEN rstrip(SubSeq(line, 1, Len(line) - 1))
    ELSE line

\* lines 42, 44: the positions where "| {" starts in line
Occurrences(line) ==
    {i \in 1..(Len(line) - 2) : line[i] = "|" /\ line[i + 1] = " " /\ line[i + 2] = "{"}

\* line 44: line.find("| {"), the first of them (1-based)
find(line) == CHOOSE i \in Occurrences(line) : \A j \in Occurrences(line) : i <= j

\* line 52: json.loads; the texts that parse, with the object each parses to
JsonObjects ==
    (<<"{", InfoBody>> :> [name |-> "api", levelname |-> "INFO", funcName |-> "-",
                          created |-> "0", message |-> "m"])
    @@ (<<"{", AuditBody>> :> [name |-> "api", levelname |-> "AUDIT", funcName |-> "-",
                              created |-> "0", message |-> "open"])
    @@ (<<"{", BadCreatedBody>> :> [name |-> "-", levelname |-> "INFO", funcName |-> "-",
                                   created |-> "x", message |-> "-"])

\* line 59: float() accepts the text of a number and raises ValueError otherwise
IsNumber(text) == text \in {"0"}

\* lines 68-89: the fields of the formatted line, in order (the time of day and
\* the colours are left out)
format_line(name, func_name, level, message) ==
    <<"formatted", name, func_name, level, message>>

\* what a call returns: a text, None, or an exception
Returned(text) == [kind |-> "text", text |-> text]
ReturnedNone == [kind |-> "none", text |-> <<>>]
Raised == [kind |-> "raise", text |-> <<>>]

\* lines 49-65
decode_json_line(line) ==
    IF line \notin DOMAIN JsonObjects
    THEN Returned(line)
    ELSE LET data == JsonObjects[line]
         IN  IF ~IsNumber(data.created) THEN Raised
             ELSE IF data.levelname = "AUDIT" THEN ReturnedNone
             ELSE Returned(format_line(data.name, data.funcName, data.levelname,
                                       data.message))

\* lines 36-46
process_line(read) ==
    LET line == rstrip(read)
    IN  IF line # <<>> /\ line[1] = "{"
        THEN decode_json_line(line)
        ELSE IF Occurrences(line) # {}
        THEN decode_json_line(SubSeq(line, find(line) + 2, Len(line)))
        ELSE Returned(line)

\* lines 29-33: one turn of the loop over sys.stdin
main ==
    /\ running
    /\ stdin # <<>>
    /\ LET line == Head(stdin)
           result == process_line(line)
       IN  /\ stdin' = Tail(stdin)
           /\ processed' = Append(processed, [line |-> line, result |-> result])
           /\ running' = (result.kind # "raise")
           /\ stdout' = IF result.kind = "text"
                         THEN Append(stdout, result.text \o <<"\r", "\n">>)
                         ELSE stdout
    /\ UNCHANGED <<audit_message_count, records, pc, local, budget, history,
                   tick, touched, evicted, hooks, pending, raw>>

\* the lines the decoder is given: with or without the prefix of
\* docker-compose logs, then a text, then trailing blanks or not
ComposePrefixes == {<<>>, <<"w", " ", "|", " ">>}
LineBodies == {<<>>, <<"a">>, <<"{", "a">>, <<"{", InfoBody>>, <<"{", AuditBody>>,
               <<"{", BadCreatedBody>>}
LineEnds == {<<"\n">>, <<" ", "\n">>}
Lines == {p \o b \o e : p \in ComposePrefixes, b \in LineBodies, e \in LineEnds}

RECURSIVE Inputs(_)
\* the sequences of at most n lines
Inputs(n) ==
    IF n = 0 THEN {<<>>}
    ELSE Inputs(n - 1) \cup {Append(i, l) : i \in {j \in Inputs(n - 1) : Len(j) = n - 1},
                                            l \in Lines}

InitDecode ==
    /\ audit_message_count = <<>>
    /\ records = <<>>
    /\ pc = [t \in Threads |-> "idle"]
    /\ local = [t \in Threads |-> NoLocal]
    /\ budget = 0
    /\ history = <<>>
    /\ tick = 0
    /\ touched = <<>>
    /\ evicted = {}
    /\ hooks = 0
    /\ pending = <<>>
    /\ raw = <<>>
    /\ stdin \in Inputs(MaxLines)
    /\ stdout = <<>>
    /\ running = TRUE
    /\ processed = <<>>

NextDecode == main

SpecDecode == InitDecode /\ [][NextDecode]_vars

----------------------------------------------------------------------------
(* Properties *)

Idle == \A t \in Threads : pc[t] = "idle"

RecordCounts(rs) == [i \in 1..Len(rs) |-> rs[i].extra["count"]]

\* the throttle policy as specified: 1..10, then multiples of 10 up to 100,
\* then multiples of 100
EmitPolicy(c) ==
    \/ c >= 1 /\ c <= 10
    \/ c >= 11 /\ c <= 100 /\ c % 10 = 0
    \/ c >= 101 /\ c % 100 = 0

ExpectedCounts(n) == SelectSeq([i \in 1..n |-> i], EmitPolicy)

\* C1: one event key dispatched n times in sequence: the counts of the records
\* logged are, in increasing order, exactly 1..10, the multiples of 10 in
\* [11,100] and the multiples of 100 in [101,n]; every record is that event's;
\* after 1000 dispatches there are exactly 28 records.
C1_ThrottleSequence ==
    pc[1] = "idle" =>
        LET n == MaxRepeat - budget
        IN  /\ RecordCounts(records) = ExpectedCounts(n)
            /\ \A i \in 1..Len(records) : records[i].msg = OpenX.event_name
            /\ (n = 1000 => Len(records) = 28)

C1_Witness ==
    /\ pc[1] = "idle"
    /\ MaxRepeat - budget = 1000
    /\ Len(records) = 28
    /\ records[11].extra["count"] = 20
    /\ records[20].extra["count"] = 200
    /\ records[28].extra["count"] = 1000

\* C2: a dispatch during which the logging sink failed still returns normally
\* to the event source.
C2_NeverRaises ==
    \A i \in 1..Len(history) :
        history[i].sink = "failed" => history[i].result = "returned"

\* C3: when no dispatch is in flight, every key that was never evicted has a
\* stored count equal to the number k of completed dispatches of that key, and
\* those dispatches observed the k distinct counts 1..k.
C3_NoLostUpdate ==
    Idle =>
        \A k \in Keys(audit_message_count) \ evicted :
            LET done == {i \in 1..Len(history) : history[i].key = k}
            IN  /\ DictGet(audit_message_count, k) = Cardinality(done)
                /\ {history[i].count : i \in done} = 1..Cardinality(done)


\* C4: in every reachable state, under every interleaving, the cache holds at
\* most maxsize keys (and no key twice).
C4_CacheBounded ==
    /\ Len(audit_message_count) <= maxsize
    /\ Cardinality(Keys(audit_message_count)) = Len(audit_message_count)

\* the cache is full and a store has evicted a key
C4_Witness ==
    /\ Len(audit_message_count) = maxsize
    /\ evicted # {}

\* the names of the Recognized-Event Table
RecognizedNames ==
    {"exec", "open", "os.kill", "os.rename", "subprocess.Popen", "socket.connect",
     "socket.getaddrinfo", "sys.addaudithook", "urllib.Request"}

\* C6: no record carries a name outside the Recognized-Event Table; a dispatch
\* of such a name logs nothing and returns; and the sink holds exactly the
\* records of the dispatches that logged one.
C6_UnrecognizedNeverLogged ==
    /\ \A i \in 1..Len(records) : records[i].msg \in RecognizedNames
    /\ \A i \in 1..Len(history) :
           history[i].event_name \notin RecognizedNames =>
               history[i].logged = <<>> /\ history[i].result = "returned"
    /\ Len(records) = Cardinality({i \in 1..Len(history) : history[i].logged # <<>>})

\* an event outside the table was dispatched after one that was logged
C6_Witness ==
    /\ Idle
    /\ audit_message_count # <<>>
    /\ \E i \in 2..Len(history) :
           /\ history[i].event_name = "import"
           /\ history[i - 1].logged # <<>>
           /\ Len(records) = 1

\* the positions of args that the table labels with the ignore marker
IgnoredPositions(h) ==
    {i \in 1..Len(h.args) :
        i <= Len(EVENTS_TO_LOG[h.event_name]) /\ EVENTS_TO_LOG[h.event_name][i] = "_"}

\* C7: in every record logged, the extra mapping has no key for the ignore
\* marker and none of its values is an argument of an ignored position.
C7_IgnoredArgsNotLogged ==
    \A i \in 1..Len(history) :
        history[i].logged # <<>> =>
            LET extra == history[i].logged[1].extra
            IN  /\ "audit.args._" \notin DOMAIN extra
                /\ \A p \in IgnoredPositions(history[i]) :
                       \A k \in DOMAIN extra \ {"count"} : extra[k] # history[i].args[p]

C7_Witness ==
    /\ \E i \in 1..Len(history) :
           /\ history[i].event_name = "subprocess.Popen"
           /\ history[i].logged # <<>>
           /\ Cardinality(IgnoredPositions(history[i])) = 1
    /\ \E i \in 1..Len(history) :
           /\ history[i].event_name = "urllib.Request"
           /\ history[i].logged # <<>>
           /\ Cardinality(IgnoredPositions(history[i])) = 2
           /\ DOMAIN history[i].logged[1].extra = {"audit.args.url", "audit.args.method", "count"}

\* C5: the store of a dispatch makes its key the most recently used (last in
\* the cache order and holder of the latest access time); the cache order is
\* the order of last access; a key leaves the cache only when a new key is
\* stored into a full cache, and then exactly one key leaves, the one whose
\* last access is the oldest; storing a new key into a full cache evicts.
C5_Step ==
    LET d == audit_message_count
        gone == Keys(d) \ Keys(d')
        new == Keys(d') \ Keys(d)
    IN  /\ pc[1] = "store" =>
               /\ d'[Len(d')].key = local[1].key
               /\ \A k \in Keys(d') : touched'[k] <= touched'[local[1].key]
        /\ \A i, j \in 1..Len(d') : i < j => touched'[d'[i].key] < touched'[d'[j].key]
        /\ gone # {} =>
               /\ Cardinality(gone) = 1
               /\ new = {local[1].key}
               /\ Len(d) = maxsize
               /\ \A g \in gone : \A k \in Keys(d) : touched[g] <= touched[k]
        /\ (new # {} /\ Len(d) = maxsize) => gone # {}

OpenLogged(h) == h.event_name = "open" /\ Len(h.args) = 3 /\ h.logged # <<>>

\* C8 as claimed: the record of an open event with three arguments holds
\* exactly the path entry, the mode entry and count.
C8_OpenThirdIgnored ==
    \A i \in 1..Len(history) :
        OpenLogged(history[i]) =>
            DOMAIN history[i].logged[1].extra
                = {"audit.args.path", "audit.args.mode", "count"}

\* C8 as amended: the record of an open event with three arguments holds
\* exactly the path, mode and flags entries and count; flags is the third
\* argument.
C8_OpenThirdIsFlags ==
    \A i \in 1..Len(history) :
        OpenLogged(history[i]) =>
            LET extra == history[i].logged[1].extra
            IN  /\ DOMAIN extra
                     = {"audit.args.path", "audit.args.mode", "audit.args.flags", "count"}
                /\ extra["audit.args.path"] = history[i].args[1]
                /\ extra["audit.args.mode"] = history[i].args[2]
                /\ extra["audit.args.flags"] = history[i].args[3]
                /\ extra["count"] = history[i].count

C8_Witness ==
    \E i \in 1..Len(history) :
        /\ OpenLogged(history[i])
        /\ history[i].args = <<PyStr("/etc/passwd"), PyStr("r"), PyNone>>
        /\ records # <<>>

RECURSIVE Logged(_)
Logged(h) == IF h = <<>> THEN <<>> ELSE Head(h).logged \o Logged(Tail(h))

\* C9: a dispatch of a recognized event whose key was not in the cache logs
\* exactly one record, with that event's name and count 1; the sink holds the
\* records of the dispatches in their order and nothing else.
C9_FreshKeyLogsCountOne ==
    /\ \A i \in 1..Len(history) :
           (history[i].event_name \in RecognizedNames /\ history[i].fresh) =>
               /\ Len(history[i].logged) = 1
               /\ history[i].logged[1].msg = history[i].event_name
               /\ history[i].logged[1].extra["count"] = 1
    /\ records = Logged(history)

\* a key is dispatched fresh a second time, after its eviction
C9_Witness ==
    \E i, j \in 1..Len(history) :
        /\ i < j
        /\ history[i].key = history[j].key
        /\ history[i].event_name = "sys.addaudithook"
        /\ history[i].fresh /\ history[j].fresh
        /\ Len(history[j].logged) = 1

\* completed dispatches of the event with this name and this argument text
DispatchesOf(key) ==
    {i \in 1..Len(history) :
        history[i].event_name = key[1] /\ repr_tuple(history[i].args) = key[2]}

\* C10, between dispatches: the stored count of a key never exceeds the number
\* of dispatches of exactly that name and argument text, and equals it for a
\* key that was never evicted.
C10_Counts ==
    pc[1] = "idle" =>
        \A i \in 1..Len(audit_message_count) :
            LET e == audit_message_count[i]
            IN  /\ e.count <= Cardinality(DispatchesOf(e.key))
                /\ e.key \notin evicted => e.count = Cardinality(DispatchesOf(e.key))

\* C10, step by step: the stored count of a key that stays in the cache changes
\* only in the store of a dispatch of exactly that name and argument text
C10_Frame ==
    \A i \in 1..Len(audit_message_count) : \A j \in 1..Len(audit_message_count') :
        (/\ audit_message_count[i].key = audit_message_count'[j].key
         /\ audit_message_count[i].count # audit_message_count'[j].count) =>
            /\ pc[1] = "store"
            /\ audit_message_count[i].key
                 = <<local[1].event_name, repr_tuple(local[1].args)>>
            /\ audit_message_count'[j].count = audit_message_count[i].count + 1

C10_IndependentCounters == []C10_Counts /\ [][C10_Frame]_vars

\* two events that differ only in an ignored argument hold different counts
C10_Witness ==
    /\ pc[1] = "idle"
    /\ DictContains(audit_message_count, <<"subprocess.Popen", repr_tuple(PopenA.args)>>)
    /\ DictContains(audit_message_count, <<"subprocess.Popen", repr_tuple(PopenB.args)>>)
    /\ DictGet(audit_message_count, <<"subprocess.Popen", repr_tuple(PopenA.args)>>) = 2
    /\ DictGet(audit_message_count, <<"subprocess.Popen", repr_tuple(PopenB.args)>>) = 1

\* C11: every dispatch logs at most one record; a dispatch that logged one is
\* of a recognized event whose count the throttle policy lets through, and the
\* record bears that event's name, the level AUDIT and that count; the sink
\* holds exactly the records of the dispatches, in the order they were logged.
C11_RecordPerAcceptedEvent ==
    /\ \A i \in 1..Len(history) :
           /\ Len(history[i].logged) <= 1
           /\ history[i].logged # <<>> =>
                  /\ history[i].event_name \in RecognizedNames
                  /\ EmitPolicy(history[i].count)
                  /\ history[i].logged[1].msg = history[i].event_name
                  /\ history[i].logged[1].levelname = "AUDIT"
                  /\ history[i].logged[1].levelno = AUDIT
                  /\ history[i].logged[1].extra["count"] = history[i].count
    /\ records = Logged(history)

\* two threads logged the same event, one record each, with different counts
C11_Witness ==
    /\ Idle
    /\ Len(records) = 2
    /\ records[1].msg = records[2].msg
    /\ records[1].extra["count"] = 2
    /\ records[2].extra["count"] = 1
    /\ \E i \in 1..Len(history) : history[i].event_name = "import"

\* the labels of the table paired with the arguments of a dispatch
PairedLabels(h) ==
    {i \in 1..Len(h.args) :
        i <= Len(EVENTS_TO_LOG[h.event_name]) /\ EVENTS_TO_LOG[h.event_name][i] # "_"}

ShortArgs(h) ==
    /\ h.event_name \in RecognizedNames
    /\ Len(h.args) < Len(EVENTS_TO_LOG[h.event_name])

\* C12: a dispatch of a recognized event with fewer arguments than labels
\* returns normally, is counted, is logged exactly when the throttle policy
\* lets its count through, and its record holds one entry for each label that
\* has an argument (and is not the ignore marker), with that argument, and
\* count; the labels without an argument are absent.
C12_ShortArgsTruncated ==
    \A i \in 1..Len(history) :
        ShortArgs(history[i]) =>
            LET h == history[i]
                names == EVENTS_TO_LOG[h.event_name]
            IN  /\ h.result = "returned"
                /\ h.count >= 1
                /\ (h.fresh => h.count = 1)
                /\ (h.logged # <<>>) = EmitPolicy(h.count)
                /\ h.logged # <<>> =>
                       /\ DOMAIN h.logged[1].extra
                            = {"audit.args." \o names[p] : p \in PairedLabels(h)} \cup {"count"}
                       /\ \A p \in PairedLabels(h) :
                              h.logged[1].extra["audit.args." \o names[p]] = h.args[p]

\* open was dispatched with no argument, twice, and with two of its three
\* arguments; each was logged with the labels it had arguments for
C12_Witness ==
    /\ \E i, j \in 1..Len(history) :
           /\ i < j
           /\ history[i].event_name = "open" /\ history[i].args = <<>>
           /\ history[j].event_name = "open" /\ history[j].args = <<>>
           /\ history[j].count = 2
           /\ DOMAIN history[j].logged[1].extra = {"count"}
    /\ \E i \in 1..Len(history) :
           /\ history[i].event_name = "open" /\ Len(history[i].args) = 2
           /\ DOMAIN history[i].logged[1].extra
                = {"audit.args.path", "audit.args.mode", "count"}

\* C13 as claimed: the level of every record is strictly between INFO (20)
\* and WARNING (30), and is named AUDIT.
C13_AuditBetweenInfoAndWarning ==
    \A i \in 1..Len(records) :
        /\ records[i].levelno > 20
        /\ records[i].levelno < 30
        /\ records[i].levelname = "AUDIT"

\* C13 as amended: the level of every record is above INFO (20) and above
\* WARNING (30), strictly between WARNING (30) and ERROR (40), and is named
\* AUDIT.
C13_AuditAboveWarning ==
    \A i \in 1..Len(records) :
        /\ records[i].levelno > 20
        /\ records[i].levelno > 30
        /\ records[i].levelno < 40
        /\ records[i].levelname = "AUDIT"

C13_Witness ==
    /\ Len(records) >= 2
    /\ records[1].levelno = 32
    /\ records[1].levelname = "AUDIT"
    /\ records[1].msg # records[2].msg

\* the last 100 dispatches of the history, when there are that many
LastWindow == (Len(history) - 99)..Len(history)

C15_Window ==
    Len(history) >= 100 =>
        /\ \A j \in LastWindow : history[j].key = history[Len(history)].key
        /\ \A j \in LastWindow : history[j].result = "returned"
        /\ \E j \in LastWindow : history[j].logged # <<>>

C15_Grows ==
    history' # history => \E h \in {history'[Len(history')]} : history' = Append(history, h)

\* C15: one key dispatched in sequence and staying in the cache: the history
\* only grows by one dispatch at its end, and whenever it holds 100 dispatches
\* or more, at least one of the last 100 was logged; so every 100 consecutive
\* dispatches hold one that was logged.
C15_NoStarvation == []C15_Window /\ [][C15_Grows]_vars

\* 199 dispatches: the 100th was logged and none of the 99 after it
C15_Witness ==
    /\ pc[1] = "idle"
    /\ Len(history) = 199
    /\ history[100].logged # <<>>
    /\ history[100].count = 100
    /\ \A j \in 101..199 : history[j].logged = <<>>
    /\ DictContains(audit_message_count, history[199].key)

CacheState == <<audit_message_count, tick, touched, evicted>>

C17_NoUnrecognizedKey ==
    /\ \A k \in Keys(audit_message_count) \cup evicted : k[1] \in RecognizedNames
    /\ \A i \in 1..Len(history) :
           history[i].event_name \notin RecognizedNames =>
               history[i].key = <<>> /\ history[i].count = 0 /\ ~history[i].fresh

C17_Step ==
    (/\ Len(history') = Len(history) + 1
     /\ history'[Len(history')].event_name \notin RecognizedNames)
        => /\ CacheState' = CacheState
           /\ records' = records
           /\ pc' = pc

\* C17: the dispatch of an unrecognized event is one step that leaves the
\* cache as it was: same keys, same counts, same order of recency, nothing
\* evicted, and no thread entered the counting code; no key of an
\* unrecognized name is ever in the cache or evicted from it.
C17_UnrecognizedLeavesCache == []C17_NoUnrecognizedKey /\ [][C17_Step]_vars

\* the cache was full when import was dispatched, and still holds its two keys
C17_Witness ==
    /\ Len(history) >= 3
    /\ history[Len(history)].event_name = "import"
    /\ Len(audit_message_count) = maxsize
    /\ evicted = {}
    /\ Idle

\* the dispatch of the same event before dispatch j, 0 when there is none
PreviousSame(j) ==
    LET same == {i \in 1..(j - 1) :
                    /\ history[i].event_name = history[j].event_name
                    /\ history[i].args = history[j].args}
    IN  IF same = {} THEN 0 ELSE CHOOSE i \in same : \A k \in same : k <= i

\* the keys of the events dispatched strictly between dispatches i and j
KeysBetween(i, j) ==
    {<<history[m].event_name, repr_tuple(history[m].args)>> : m \in (i + 1)..(j - 1)}

\* C14: sequential dispatches: when at least maxsize other keys were dispatched
\* since the previous dispatch of a key, the key has been evicted and its next
\* dispatch is counted 1 and logged with count 1; otherwise the dispatch is
\* counted one more than the previous one; in both cases it is logged exactly
\* when the throttle policy lets its count through, so the sequence of logged
\* counts starts over after an eviction.
C14_EvictedKeyRestarts ==
    \A j \in 1..Len(history) :
        LET h == history[j]
            i == PreviousSame(j)
        IN  /\ (i = 0 => h.count = 1)
            /\ (i > 0 /\ Cardinality(KeysBetween(i, j)) >= maxsize) =>
                   /\ h.key \in evicted
                   /\ h.count = 1
                   /\ h.logged # <<>>
                   /\ h.logged[1].extra["count"] = 1
            /\ (i > 0 /\ Cardinality(KeysBetween(i, j)) < maxsize) =>
                   h.count = history[i].count + 1
            /\ (h.logged # <<>>) = EmitPolicy(h.count)
            /\ h.result = "returned"

\* a key counted 1 and 2, evicted by two other keys, then counted 1 and 2 again
C14_Witness ==
    /\ Len(history) = 6
    /\ history[1].key = history[2].key
    /\ history[5].key = history[1].key
    /\ history[6].key = history[1].key
    /\ history[3].key # history[1].key
    /\ history[4].key # history[1].key
    /\ history[3].key # history[4].key
    /\ history[2].count = 2
    /\ history[5].count = 1
    /\ history[6].count = 2
    /\ RecordCounts(records) = <<1, 2, 1, 1, 1, 2>>
    /\ history[1].key \in evicted

RECURSIVE Deliveries(_)
\* the number of hook calls the raw events r make
Deliveries(r) == IF r = <<>> THEN 0 ELSE Head(r).hooks + Deliveries(Tail(r))

\* the dispatches before those of raw event i
SegStart(i) == Deliveries(SubSeq(raw, 1, i - 1))

InitCalls == {i \in 1..Len(raw) : raw[i].by = "init"}

Quiet == pending = <<>> /\ pc[1] = "idle"

\* C16: every call of init() registers the handler once more, and its
\* sys.addaudithook event goes to the handlers registered before it; once the
\* raw events raised are fully delivered, each has made one dispatch per
\* registered handler, all against the one cache: the first is counted 1 for
\* a key not in the cache and one more than the key's previous dispatch
\* otherwise, the next ones one more each, so that with two handlers the count
\* advances by 2 for each raw event; the second init() is dispatched once, to
\* the first handler, and logged with count 1.
C16_InitNotIdempotent ==
    /\ hooks = Cardinality(InitCalls)
    /\ \A i \in InitCalls : raw[i].hooks = Cardinality({j \in InitCalls : j < i})
    /\ Quiet =>
           /\ Len(history) = Deliveries(raw)
           /\ \A i \in 1..Len(raw) : \A k \in 1..raw[i].hooks :
                  LET j == SegStart(i) + k
                      h == history[j]
                  IN  /\ h.event_name = raw[i].ev.event_name
                      /\ h.args = raw[i].ev.args
                      /\ k > 1 => h.count = history[j - 1].count + 1
                      /\ k = 1 => h.count = IF h.fresh THEN 1
                                            ELSE history[PreviousSame(j)].count + 1
                      /\ (raw[i].by = "init" /\ raw[i].hooks = 1) =>
                             /\ h.count = 1
                             /\ h.logged # <<>>
                             /\ h.logged[1].msg = "sys.addaudithook"
                             /\ h.logged[1].extra = ("count" :> 1)

\* init() twice, then the same raw event twice: four dispatches, the stored
\* count is 4, and the second init() was logged
C16_Witness ==
    /\ Quiet
    /\ hooks = 2
    /\ Len(raw) = 4
    /\ raw[3].ev = OpenX /\ raw[4].ev = OpenX
    /\ Len(history) = 5
    /\ history[1].event_name = "sys.addaudithook"
    /\ history[1].logged # <<>>
    /\ history[5].count = 4
    /\ DictContains(audit_message_count, history[5].key)
    /\ DictGet(audit_message_count, history[5].key) = 4

\* a line as it was read, without its line terminator and the blanks before it
AsRead(line) == rstrip(line)

\* the part of a line that is JSON text, <<>> when it has none: the line
\* itself when it starts with a brace, what follows "| " in the format of
\* docker-compose logs
JsonPart(line) ==
    LET text == rstrip(line)
    IN  IF text # <<>> /\ text[1] = "{" THEN text
        ELSE IF Occurrences(text) # {}
        THEN SubSeq(text, find(text) + 2, Len(text))
        ELSE <<>>

IsAuditLine(line) ==
    /\ JsonPart(line) \in DOMAIN JsonObjects
    /\ JsonObjects[JsonPart(line)].levelname = "AUDIT"

\* C18 as claimed: every line read yields exactly one line written, except a
\* line whose JSON part is an object with levelname AUDIT, which yields none;
\* a line with no JSON part, or whose JSON part does not parse, is written as
\* it was read (its trailing blanks aside), followed by a line terminator.
C18_OneLinePerInput ==
    /\ Len(stdout) = Cardinality({i \in 1..Len(processed) :
                                     ~IsAuditLine(processed[i].line)})
    /\ \A i \in 1..Len(processed) :
           LET line == processed[i].line
               result == processed[i].result
           IN  /\ IsAuditLine(line) => result.kind = "none"
               /\ ~IsAuditLine(line) => result.kind = "text"
               /\ JsonPart(line) \notin DOMAIN JsonObjects =>
                      /\ result = Returned(AsRead(line))
                      /\ stdout # <<>>
                      /\ \E k \in 1..Len(stdout) : stdout[k] = AsRead(line) \o <<"\r", "\n">>

====
